---- MODULE Spec2Model ----
(***************************************************************************)
(* Model of src/mcp_chatbot.py: the MCP_ChatBot command-line client.       *)
(* Python strings are sequences of one-character strings, so that strip,   *)
(* lower, split and startswith are computed and not assumed.               *)
(***************************************************************************)
EXTENDS Integers, Sequences, FiniteSets, TLC

(* ------------------------------ bounds --------------------------------- *)
MaxRounds == 1
MaxBlocks == 2
MaxTokLen == 3
MaxArgs == 2

(* ------------------------- string primitives --------------------------- *)
Whitespace == {" ", "\t"}

UpperToLower ==
  ("A" :> "a") @@ ("B" :> "b") @@ ("C" :> "c") @@ ("D" :> "d") @@ ("E" :> "e") @@
  ("F" :> "f") @@ ("G" :> "g") @@ ("H" :> "h") @@ ("I" :> "i") @@ ("J" :> "j") @@
  ("K" :> "k") @@ ("L" :> "l") @@ ("M" :> "m") @@ ("N" :> "n") @@ ("O" :> "o") @@
  ("P" :> "p") @@ ("Q" :> "q") @@ ("R" :> "r") @@ ("S" :> "s") @@ ("T" :> "t") @@
  ("U" :> "u") @@ ("V" :> "v") @@ ("W" :> "w") @@ ("X" :> "x") @@ ("Y" :> "y") @@
  ("Z" :> "z")

LowerChar(c) == IF c \in DOMAIN UpperToLower THEN UpperToLower[c] ELSE c

Lower(s) == [i \in 1..Len(s) |-> LowerChar(s[i])]

RECURSIVE LStrip(_)
LStrip(s) == IF s # <<>> /\ Head(s) \in Whitespace THEN LStrip(Tail(s)) ELSE s

RECURSIVE RStrip(_)
RStrip(s) ==
  IF s # <<>> /\ s[Len(s)] \in Whitespace THEN RStrip(SubSeq(s, 1, Len(s) - 1)) ELSE s

Strip(s) == RStrip(LStrip(s))

StartsWith(s, p) == Len(s) >= Len(p) /\ SubSeq(s, 1, Len(p)) = p

(* str.split(): tokens are the maximal runs of non-whitespace characters. *)
RECURSIVE SplitFrom(_, _, _)
SplitFrom(s, cur, acc) ==
  IF s = <<>>
  THEN IF cur = <<>> THEN acc ELSE Append(acc, cur)
  ELSE IF Head(s) \in Whitespace
       THEN SplitFrom(Tail(s), <<>>, IF cur = <<>> THEN acc ELSE Append(acc, cur))
       ELSE SplitFrom(Tail(s), Append(cur, Head(s)), acc)

Split(s) == SplitFrom(s, <<>>, <<>>)

HasEq(arg) == \E i \in 1..Len(arg) : arg[i] = "="

(* position of the first "=" of a token that has one *)
FirstEq(arg) == CHOOSE i \in 1..Len(arg) : arg[i] = "=" /\ \A j \in 1..(i - 1) : arg[j] # "="

(* position of the last "=": what rsplit would use *)
LastEq(arg) == CHOOSE i \in 1..Len(arg) : arg[i] = "=" /\ \A j \in (i + 1)..Len(arg) : arg[j] # "="

(* faulty variant: arg.rsplit("=", 1) *)
SplitEqLast(arg) == <<SubSeq(arg, 1, LastEq(arg) - 1), SubSeq(arg, LastEq(arg) + 1, Len(arg))>>

(* arg.split("=", 1) *)
SplitEq(arg) == <<SubSeq(arg, 1, FirstEq(arg) - 1), SubSeq(arg, FirstEq(arg) + 1, Len(arg))>>

(* a dict as a function; d[k] = v overwrites *)
DictSet(d, k, v) == [x \in DOMAIN d \cup {k} |-> IF x = k THEN v ELSE d[x]]

EmptyDict == [x \in {} |-> <<>>]

(* the loop "for arg in parts[2:]" of chat_loop *)
RECURSIVE ParseArgsFrom(_, _)
ParseArgsFrom(toks, args) ==
  IF toks = <<>> THEN args
  ELSE IF HasEq(Head(toks))
       THEN ParseArgsFrom(Tail(toks), DictSet(args, SplitEq(Head(toks))[1], SplitEq(Head(toks))[2]))
       ELSE ParseArgsFrom(Tail(toks), args)

ParseArgs(parts) == ParseArgsFrom(SubSeq(parts, 3, Len(parts)), EmptyDict)

(* ------------------------------ strings -------------------------------- *)
S_quit == <<"q", "u", "i", "t">>
S_papers == <<"p", "a", "p", "e", "r", "s", ":", "/", "/">>
S_folders == <<"f", "o", "l", "d", "e", "r", "s">>
S_prompts == <<"/", "p", "r", "o", "m", "p", "t", "s">>
S_prompt == <<"/", "p", "r", "o", "m", "p", "t">>
S_other == <<"o", "t", "h", "e", "r", ":", "/", "/">>

(* names the server may advertise *)
N_tool == <<"s">>
N_prompt == <<"p">>
U_folders == S_papers \o S_folders
U_quantum == S_papers \o <<"q">>
U_otherx == S_other \o <<"x">>

(* input lines the user may type *)
Lines ==
  { <<>>,
    <<" ">>,
    S_quit,
    <<"Q", "U", "I", "T">>,
    <<" ", "Q", "u", "i", "t", " ">>,
    <<"h", "i">>,
    <<"@">> \o S_folders,
    <<"@", "q">>,
    S_prompts,
    <<"/", "P", "r", "o", "m", "p", "t", "s", " ", "x">>,
    S_prompt,
    S_prompt \o <<" ", "z">>,
    S_prompt \o <<" ", "s">>,
    <<"/", "P", "R", "O", "M", "P", "T", " ", " ", "p", " ", "k", "=", "a", " ", "m", " ", "k", "=", "b", "=">>,
    <<"/", "x", " ", "p">>,
    S_prompt \o <<" ">> \o U_folders }

(* ------------------------- values of the model ------------------------- *)
None == "None"

(* the value of line before input() has returned anything *)
NoLine == <<"<no line>">>
TheSession == "session"

IsException(e) == e \in {"ConnectionError", "AttributeError", "EOFError"}

TextBlock(t) == [type |-> "text", id |-> "", name |-> <<>>, text |-> t]
ToolUseBlock(i, n) == [type |-> "tool_use", id |-> i, name |-> n, text |-> <<>>]
ToolResultBlock(i, r) == [type |-> "tool_result", id |-> i, name |-> <<>>, text |-> r]
StrContent(q) == <<[type |-> "str", id |-> "", name |-> <<>>, text |-> q]>>

Message(r, c) == [role |-> r, content |-> c]

Output(k, t) == [ev |-> "print", kind |-> k, id |-> "", text |-> t, to |-> None]
Invoke(op, i, t) == [ev |-> "call", kind |-> op, id |-> i, text |-> t, to |-> None]

(* a call made on a session object: to is the object the method is called on *)
InvokeOn(sess, op, i, t) == [ev |-> "call", kind |-> op, id |-> i, text |-> t, to |-> sess]

(* content blocks a model response is made of *)
BlockUniverse ==
  { TextBlock(<<"a">>), TextBlock(<<"b">>),
    ToolUseBlock("t1", N_tool), ToolUseBlock("t2", <<"n">>) }

RECURSIVE SeqsUpTo(_, _)
SeqsUpTo(S, n) ==
  IF n = 0 THEN {<<>>}
  ELSE LET R == SeqsUpTo(S, n - 1) IN R \cup {Append(r, x) : r \in {q \in R : Len(q) = n - 1}, x \in S}

(* the ids of the tool-use requests of one response are distinct *)
Responses ==
  {r \in SeqsUpTo(BlockUniverse, MaxBlocks) :
     \A i, j \in 1..Len(r) : (r[i].type = "tool_use" /\ r[i].id = r[j].id) => i = j}

(* what call_tool may return, and str() of it *)
ToolResults == {[content |-> <<"r">>, isError |-> FALSE]}

Str(result) ==
  <<"c", "=">> \o result.content \o <<" ", "e", "=">> \o (IF result.isError THEN <<"T">> ELSE <<"F">>)

RECURSIVE SelectBlocks(_, _)
SelectBlocks(content, t) ==
  IF content = <<>> THEN <<>>
  ELSE IF Head(content).type = t
       THEN <<Head(content)>> \o SelectBlocks(Tail(content), t)
       ELSE SelectBlocks(Tail(content), t)

(* what get_prompt may return: no messages, or a first message whose content
   is a str, an object with a text attribute, or a list of parts *)
PromptResults ==
  { [shape |-> "none", text |-> <<>>, parts |-> <<>>],
    [shape |-> "str", text |-> <<"T">>, parts |-> <<>>],
    [shape |-> "obj", text |-> <<"T">>, parts |-> <<>>],
    [shape |-> "list", text |-> <<>>, parts |-> <<<<"T">>, <<"U">>>>] }

RECURSIVE JoinWith(_, _)
JoinWith(parts, sep) ==
  IF parts = <<>> THEN <<>>
  ELSE IF Len(parts) = 1 THEN Head(parts)
  ELSE Head(parts) \o sep \o JoinWith(Tail(parts), sep)

PromptText(content) ==
  IF content.shape = "str" THEN content.text
  ELSE IF content.shape = "obj" /\ content.text # <<>> THEN content.text
  ELSE JoinWith(content.parts, <<" ">>)

(* what discovery may return *)
ToolLists == {<<N_tool>>}
PromptLists == {<<>>, <<N_prompt>>}
ResourceLists == {<<>>, <<U_folders>>}

RECURSIVE RegisterAll(_, _)
RegisterAll(sess, names) ==
  IF names = <<>> THEN sess
  ELSE RegisterAll(DictSet(sess, Head(names), TheSession), Tail(names))

Descriptors(names) == [i \in 1..Len(names) |-> [name |-> names[i]]]

Reverse(s) == [i \in 1..Len(s) |-> s[Len(s) + 1 - i]]

(* ------------------------------- state --------------------------------- *)
VARIABLES
  pc,                 \* the next await or step of the single task
  stack,              \* the call stack, outermost frame first
  exc,                \* the exception in flight, "none" when there is none
  sessions,           \* self.sessions
  available_tools,    \* self.available_tools
  available_prompts,  \* self.available_prompts
  session,            \* self.session, None until connect_to_server sets it
  exit_stack,         \* the contexts self.exit_stack holds
  acquired,           \* every context ever entered, in order
  released,           \* every context exit, in order
  cleanup_calls,      \* how often cleanup() ran
  connect_failed,     \* connect_to_server reported a failure
  eof,                \* the input source is exhausted
  line,               \* the line input() returned last
  prompt_name,        \* chat_loop's prompt_name
  args,               \* chat_loop's args
  resource_uri,       \* get_resource's resource_uri
  local_session,      \* the session get_resource / execute_prompt resolved
  messages,           \* process_query's messages
  tool_results,       \* process_query's tool_results
  sent,               \* the messages argument of the last messages.create call
  log                 \* what was printed and called since the last input()

vars ==
  <<pc, stack, exc, sessions, available_tools, available_prompts, session,
    exit_stack, acquired, released, cleanup_calls, connect_failed, eof, line,
    prompt_name, args, resource_uri, local_session, messages, tool_results, sent, log>>

registry == <<sessions, available_tools, available_prompts>>
resources == <<exit_stack, acquired, released, cleanup_calls>>
locals == <<line, prompt_name, args, resource_uri, local_session>>
engine == <<messages, tool_results, sent>>

ConnectStages ==
  {"sse_client", "ClientSession", "initialize", "list_tools", "list_prompts", "list_resources"}

Init ==
  /\ pc = "sse_client"
  /\ stack = <<"main", "connect_to_server">>
  /\ exc = "none"
  /\ sessions = EmptyDict
  /\ available_tools = <<>>
  /\ available_prompts = <<>>
  /\ session = None
  /\ exit_stack = <<>>
  /\ acquired = <<>>
  /\ released = <<>>
  /\ cleanup_calls = 0
  /\ connect_failed = FALSE
  /\ eof = FALSE
  /\ line = NoLine
  /\ prompt_name = <<>>
  /\ args = EmptyDict
  /\ resource_uri = <<>>
  /\ local_session = None
  /\ messages = <<>>
  /\ tool_results = <<>>
  /\ sent = <<>>
  /\ log = <<>>

(* --------------------------- connect_to_server ------------------------- *)
EnterSseClient ==
  /\ pc = "sse_client"
  /\ exit_stack' = Append(exit_stack, "sse_client")
  /\ acquired' = Append(acquired, "sse_client")
  /\ pc' = "ClientSession"
  /\ UNCHANGED <<stack, exc, registry, session, released, cleanup_calls,
                 connect_failed, eof, locals, engine, log>>

EnterClientSession ==
  /\ pc = "ClientSession"
  /\ exit_stack' = Append(exit_stack, "ClientSession")
  /\ acquired' = Append(acquired, "ClientSession")
  /\ session' = TheSession
  /\ pc' = "initialize"
  /\ UNCHANGED <<stack, exc, registry, released, cleanup_calls,
                 connect_failed, eof, locals, engine, log>>

Initialize ==
  /\ pc = "initialize"
  /\ pc' = "list_tools"
  /\ UNCHANGED <<stack, exc, registry, session, resources,
                 connect_failed, eof, locals, engine, log>>

RegisterTools ==
  /\ pc = "list_tools"
  /\ \E tools \in ToolLists :
       /\ sessions' = RegisterAll(sessions, tools)
       /\ available_tools' = available_tools \o Descriptors(tools)
  /\ pc' = "list_prompts"
  /\ UNCHANGED <<stack, exc, available_prompts, session, resources,
                 connect_failed, eof, locals, engine, log>>

RegisterPrompts ==
  /\ pc = "list_prompts"
  /\ \E prompts \in PromptLists :
       /\ sessions' = RegisterAll(sessions, prompts)
       /\ available_prompts' = available_prompts \o Descriptors(prompts)
  /\ pc' = "list_resources"
  /\ UNCHANGED <<stack, exc, available_tools, session, resources,
                 connect_failed, eof, locals, engine, log>>

RegisterResources ==
  /\ pc = "list_resources"
  /\ \E uris \in ResourceLists : sessions' = RegisterAll(sessions, uris)
  /\ pc' = "chat_loop"
  /\ stack' = <<"main">>
  /\ UNCHANGED <<exc, available_tools, available_prompts, session, resources,
                 connect_failed, eof, locals, engine, log>>

(* any of the awaits of connect_to_server raises *)
ConnectFail ==
  /\ pc \in ConnectStages
  /\ pc' = "raised"
  /\ exc' = "ConnectionError"
  /\ UNCHANGED <<stack, registry, session, resources,
                 connect_failed, eof, locals, engine, log>>

(* ------------------------------ exceptions ----------------------------- *)
Catching == {"connect_to_server", "chat_loop", "execute_prompt", "get_resource"}

(* the innermost frame whose handler takes the exception; main's finally
   takes whatever no except clause does *)
HandlerIndex(stk, e) ==
  CHOOSE i \in 1..Len(stk) :
    /\ (stk[i] \in Catching /\ IsException(e)) \/ i = 1
    /\ \A j \in (i + 1)..Len(stk) : ~(stk[j] \in Catching /\ IsException(e))

Handler(stk, e) == stk[HandlerIndex(stk, e)]

ConnectExcept ==
  /\ pc = "raised"
  /\ Handler(stack, exc) = "connect_to_server"
  /\ log' = Append(log, Output("connect_error", <<exc>>))
  /\ connect_failed' = TRUE
  /\ exc' = "none"
  /\ stack' = <<"main">>
  /\ pc' = "chat_loop"
  /\ UNCHANGED <<registry, session, resources, eof, locals, engine>>

(* ------------------------------ get_resource --------------------------- *)
Lookup(sess, key) == IF key \in DOMAIN sess THEN sess[key] ELSE None

(* faulty variant: no papers:// fallback *)
ResolveResourceExact(sess, uri) == Lookup(sess, uri)

ResolveResource(sess, uri) ==
  IF Lookup(sess, uri) = None /\ StartsWith(uri, S_papers)
  THEN IF \E k \in DOMAIN sess : StartsWith(k, S_papers)
       THEN sess[CHOOSE k \in DOMAIN sess : StartsWith(k, S_papers)]
       ELSE None
  ELSE Lookup(sess, uri)

(* get_resource up to its await; out is what the line has printed so far *)
GetResource(uri, out) ==
  /\ resource_uri' = uri
  /\ local_session' = ResolveResource(sessions, uri)
  /\ IF ResolveResource(sessions, uri) = None
     THEN /\ log' = Append(out, Output("resource_not_found", uri))
          /\ pc' = "input"
          /\ UNCHANGED stack
     ELSE /\ log' = out
          /\ pc' = "read_resource"
          /\ stack' = Append(stack, "get_resource")

ResourceContents == {<<>>, <<<<"c">>>>}

ReadResourceReturn ==
  /\ pc = "read_resource"
  /\ \E contents \in ResourceContents :
       log' = Append(log, InvokeOn(local_session, "read_resource", "", resource_uri)) \o
              (IF contents # <<>>
               THEN <<Output("resource", resource_uri), Output("content", contents[1])>>
               ELSE <<Output("no_content", <<>>)>>)
  /\ pc' = "input"
  /\ stack' = <<"main", "chat_loop">>
  /\ UNCHANGED <<exc, registry, session, resources, connect_failed, eof, locals, engine>>

ReadResourceFail ==
  /\ pc = "read_resource"
  /\ log' = Append(log, InvokeOn(local_session, "read_resource", "", resource_uri))
  /\ pc' = "raised"
  /\ exc' = "ConnectionError"
  /\ UNCHANGED <<stack, registry, session, resources, connect_failed, eof, locals, engine>>

GetResourceExcept ==
  /\ pc = "raised"
  /\ Handler(stack, exc) = "get_resource"
  /\ log' = Append(log, Output("error", <<exc>>))
  /\ exc' = "none"
  /\ stack' = <<"main", "chat_loop">>
  /\ pc' = "input"
  /\ UNCHANGED <<registry, session, resources, connect_failed, eof, locals, engine>>

(* ------------------------------ process_query -------------------------- *)
(* faulty variant: the history is kept between queries, so the line read
   before this one is still at its head *)
ProcessQueryCarrying(query, stk, out) ==
  /\ messages' = IF line = NoLine
                 THEN <<Message("user", StrContent(query))>>
                 ELSE <<Message("user", StrContent(Strip(line))),
                        Message("user", StrContent(query))>>
  /\ sent' = <<>>
  /\ stack' = Append(stk, "process_query")
  /\ log' = out
  /\ pc' = "model"

ProcessQuery(query, stk, out) ==
  /\ messages' = <<Message("user", StrContent(query))>>
  /\ sent' = <<>>
  /\ stack' = Append(stk, "process_query")
  /\ log' = out
  /\ pc' = "model"

Rounds(msgs) == (Len(msgs) - 1) \div 2

(* faulty variant: the text blocks are printed last first *)
TextOutputsReversed(content) ==
  [i \in 1..Len(SelectBlocks(content, "text")) |->
     Output("text", SelectBlocks(content, "text")[Len(SelectBlocks(content, "text")) + 1 - i].text)]

TextOutputs(content) ==
  [i \in 1..Len(SelectBlocks(content, "text")) |->
     Output("text", SelectBlocks(content, "text")[i].text)]

(* faulty variant: the model is given the last message only *)
ModelRespondLastOnly ==
  /\ pc = "model"
  /\ \E resp \in Responses :
       /\ SelectBlocks(resp, "tool_use") # <<>> => Rounds(messages) < MaxRounds
       /\ messages' = Append(messages, Message("assistant", resp))
       /\ sent' = <<messages[Len(messages)]>>
       /\ IF SelectBlocks(resp, "tool_use") = <<>>
          THEN /\ log' = Append(log, Invoke("messages.create", "", <<>>)) \o TextOutputs(resp)
               /\ pc' = "break"
               /\ UNCHANGED tool_results
          ELSE /\ log' = Append(log, Invoke("messages.create", "", <<>>))
               /\ pc' = "call_tool"
               /\ tool_results' = <<>>
  /\ UNCHANGED <<stack, exc, registry, session, resources, connect_failed, eof, locals>>

(* faulty variant: the text blocks of every response are printed *)
ModelRespondPrintingAll ==
  /\ pc = "model"
  /\ \E resp \in Responses :
       /\ SelectBlocks(resp, "tool_use") # <<>> => Rounds(messages) < MaxRounds
       /\ messages' = Append(messages, Message("assistant", resp))
       /\ sent' = messages
       /\ log' = Append(log, Invoke("messages.create", "", <<>>)) \o TextOutputs(resp)
       /\ IF SelectBlocks(resp, "tool_use") = <<>>
          THEN /\ pc' = "break"
               /\ UNCHANGED tool_results
          ELSE /\ pc' = "call_tool"
               /\ tool_results' = <<>>
  /\ UNCHANGED <<stack, exc, registry, session, resources, connect_failed, eof, locals>>

ModelRespond ==
  /\ pc = "model"
  /\ \E resp \in Responses :
       /\ SelectBlocks(resp, "tool_use") # <<>> => Rounds(messages) < MaxRounds
       /\ messages' = Append(messages, Message("assistant", resp))
       /\ sent' = messages
       /\ IF SelectBlocks(resp, "tool_use") = <<>>
          THEN /\ log' = Append(log, Invoke("messages.create", "", <<>>)) \o TextOutputs(resp)
               /\ pc' = "break"
               /\ UNCHANGED tool_results
          ELSE /\ log' = Append(log, Invoke("messages.create", "", <<>>))
               /\ pc' = "call_tool"
               /\ tool_results' = <<>>
  /\ UNCHANGED <<stack, exc, registry, session, resources, connect_failed, eof, locals>>

ModelFail ==
  /\ pc = "model"
  /\ log' = Append(log, Invoke("messages.create", "", <<>>))
  /\ sent' = messages
  /\ pc' = "raised"
  /\ exc' = "ConnectionError"
  /\ UNCHANGED <<stack, registry, session, resources, connect_failed, eof, locals,
                 messages, tool_results>>

TraceLine(block) == [ev |-> "print", kind |-> "trace", id |-> block.id, text |-> block.name, to |-> None]

ToolUseBlocks == SelectBlocks(messages[Len(messages)].content, "tool_use")

(* faulty variant: the requests are taken from the last one backwards *)
CurrentBlockFromEnd == ToolUseBlocks[Len(ToolUseBlocks) - Len(tool_results)]

CurrentBlock == ToolUseBlocks[Len(tool_results) + 1]

(* faulty variant: a new result is put in front of the earlier ones *)
CallToolReturnPrepend ==
  /\ pc = "call_tool"
  /\ session # None
  /\ \E result \in ToolResults :
       LET results == <<ToolResultBlock(CurrentBlock.id, Str(result))>> \o tool_results IN
         /\ tool_results' = results
         /\ IF Len(results) = Len(ToolUseBlocks)
            THEN /\ messages' = Append(messages, Message("user", results))
                 /\ pc' = "model"
            ELSE /\ UNCHANGED messages
                 /\ pc' = "call_tool"
  /\ log' = log \o <<TraceLine(CurrentBlock), InvokeOn(session, "call_tool", CurrentBlock.id, CurrentBlock.name)>>
  /\ UNCHANGED <<stack, exc, registry, session, resources, connect_failed, eof, locals, sent>>

(* faulty variant: the session is looked up in self.sessions by tool name *)
CallToolReturnViaRegistry ==
  /\ pc = "call_tool"
  /\ session # None
  /\ \E result \in ToolResults :
       LET results == Append(tool_results, ToolResultBlock(CurrentBlock.id, Str(result))) IN
         /\ tool_results' = results
         /\ IF Len(results) = Len(ToolUseBlocks)
            THEN /\ messages' = Append(messages, Message("user", results))
                 /\ pc' = "model"
            ELSE /\ UNCHANGED messages
                 /\ pc' = "call_tool"
  /\ log' = log \o <<TraceLine(CurrentBlock),
                     InvokeOn(Lookup(sessions, CurrentBlock.name), "call_tool",
                              CurrentBlock.id, CurrentBlock.name)>>
  /\ UNCHANGED <<stack, exc, registry, session, resources, connect_failed, eof, locals, sent>>

CallToolReturn ==
  /\ pc = "call_tool"
  /\ session # None
  /\ \E result \in ToolResults :
       LET results == Append(tool_results, ToolResultBlock(CurrentBlock.id, Str(result))) IN
         /\ tool_results' = results
         /\ IF Len(results) = Len(ToolUseBlocks)
            THEN /\ messages' = Append(messages, Message("user", results))
                 /\ pc' = "model"
            ELSE /\ UNCHANGED messages
                 /\ pc' = "call_tool"
  /\ log' = log \o <<TraceLine(CurrentBlock), InvokeOn(session, "call_tool", CurrentBlock.id, CurrentBlock.name)>>
  /\ UNCHANGED <<stack, exc, registry, session, resources, connect_failed, eof, locals, sent>>

(* faulty variant: the results collected so far are appended to the history
   before the exception leaves process_query *)
CallToolFailAppending ==
  /\ pc = "call_tool"
  /\ session # None
  /\ log' = log \o <<TraceLine(CurrentBlock), InvokeOn(session, "call_tool", CurrentBlock.id, CurrentBlock.name)>>
  /\ messages' = Append(messages, Message("user", tool_results))
  /\ pc' = "raised"
  /\ exc' = "ConnectionError"
  /\ UNCHANGED <<stack, registry, session, resources, connect_failed, eof, locals,
                 tool_results, sent>>

CallToolFail ==
  /\ pc = "call_tool"
  /\ session # None
  /\ log' = log \o <<TraceLine(CurrentBlock), InvokeOn(session, "call_tool", CurrentBlock.id, CurrentBlock.name)>>
  /\ pc' = "raised"
  /\ exc' = "ConnectionError"
  /\ UNCHANGED <<stack, registry, session, resources, connect_failed, eof, locals, engine>>

(* self.session was never assigned: the attribute access raises *)
CallToolNoSession ==
  /\ pc = "call_tool"
  /\ session = None
  /\ log' = Append(log, TraceLine(CurrentBlock))
  /\ pc' = "raised"
  /\ exc' = "AttributeError"
  /\ UNCHANGED <<stack, registry, session, resources, connect_failed, eof, locals, engine>>

(* process_query returns, and with it execute_prompt when that called it *)
ProcessQueryReturn ==
  /\ pc = "break"
  /\ messages' = <<>>
  /\ tool_results' = <<>>
  /\ sent' = <<>>
  /\ stack' = <<"main", "chat_loop">>
  /\ pc' = "input"
  /\ UNCHANGED <<exc, registry, session, resources, connect_failed, eof, locals, log>>

(* ------------------------------ execute_prompt ------------------------- *)
(* execute_prompt up to its await *)
(* faulty variant: a name is found only when it is the name of a prompt *)
ExecutePromptAmongPrompts(name, out) ==
  /\ local_session' = IF \E i \in 1..Len(available_prompts) : available_prompts[i].name = name
                      THEN Lookup(sessions, name) ELSE None
  /\ IF ~\E i \in 1..Len(available_prompts) : available_prompts[i].name = name
     THEN /\ log' = Append(out, Output("prompt_not_found", name))
          /\ pc' = "input"
          /\ UNCHANGED stack
     ELSE /\ log' = out
          /\ pc' = "get_prompt"
          /\ stack' = Append(stack, "execute_prompt")

ExecutePrompt(name, out) ==
  /\ local_session' = Lookup(sessions, name)
  /\ IF Lookup(sessions, name) = None
     THEN /\ log' = Append(out, Output("prompt_not_found", name))
          /\ pc' = "input"
          /\ UNCHANGED stack
     ELSE /\ log' = out
          /\ pc' = "get_prompt"
          /\ stack' = Append(stack, "execute_prompt")

GetPromptReturn ==
  /\ pc = "get_prompt"
  /\ \E result \in PromptResults :
       IF result.shape = "none"
       THEN /\ log' = Append(log, InvokeOn(local_session, "get_prompt", "", prompt_name))
            /\ pc' = "input"
            /\ stack' = <<"main", "chat_loop">>
            /\ UNCHANGED engine
       ELSE /\ ProcessQuery(PromptText(result), stack,
                            log \o <<InvokeOn(local_session, "get_prompt", "", prompt_name),
                                     Output("executing", prompt_name)>>)
            /\ UNCHANGED tool_results
  /\ UNCHANGED <<exc, registry, session, resources, connect_failed, eof, locals>>

GetPromptFail ==
  /\ pc = "get_prompt"
  /\ log' = Append(log, InvokeOn(local_session, "get_prompt", "", prompt_name))
  /\ pc' = "raised"
  /\ exc' = "ConnectionError"
  /\ UNCHANGED <<stack, registry, session, resources, connect_failed, eof, locals, engine>>

(* faulty variant: execute_prompt prints the error and raises it again *)
ExecutePromptExceptReraise ==
  /\ pc = "raised"
  /\ Handler(stack, exc) = "execute_prompt"
  /\ log' = Append(log, Output("error", <<exc>>))
  /\ messages' = <<>>
  /\ tool_results' = <<>>
  /\ sent' = <<>>
  /\ stack' = <<"main", "chat_loop">>
  /\ pc' = "raised"
  /\ UNCHANGED <<exc, registry, session, resources, connect_failed, eof, locals>>

ExecutePromptExcept ==
  /\ pc = "raised"
  /\ Handler(stack, exc) = "execute_prompt"
  /\ log' = Append(log, Output("error", <<exc>>))
  /\ exc' = "none"
  /\ messages' = <<>>
  /\ tool_results' = <<>>
  /\ sent' = <<>>
  /\ stack' = <<"main", "chat_loop">>
  /\ pc' = "input"
  /\ UNCHANGED <<registry, session, resources, connect_failed, eof, locals>>

(* ------------------------------ list_prompts --------------------------- *)
ListPromptsOutput ==
  IF available_prompts = <<>>
  THEN <<Output("no_prompts", <<>>)>>
  ELSE <<Output("prompts_header", <<>>)>> \o
       [i \in 1..Len(available_prompts) |-> Output("prompt", available_prompts[i].name)]

(* -------------------------------- chat_loop ---------------------------- *)
ChatLoopStart ==
  /\ pc = "chat_loop"
  /\ log' = Append(log, Output("banner", <<>>))
  /\ stack' = <<"main", "chat_loop">>
  /\ pc' = "input"
  /\ UNCHANGED <<exc, registry, session, resources, connect_failed, eof, locals, engine>>

(* faulty variant: quit is compared without lower() *)
IsQuitCaseSensitive(l) == Strip(l) = <<>> \/ Strip(l) = S_quit

IsQuit(l) == Strip(l) = <<>> \/ Lower(Strip(l)) = S_quit

IsResource(l) == ~IsQuit(l) /\ Head(Strip(l)) = "@"

IsCommand(l) == ~IsQuit(l) /\ ~IsResource(l) /\ Head(Strip(l)) = "/"

Parts(l) == Split(Strip(l))

(* faulty variant: the command is compared as typed *)
CommandAsTyped(l) == Parts(l)[1]

Command(l) == Lower(Parts(l)[1])

ResourceUri(topic) == IF topic = S_folders THEN S_papers \o S_folders ELSE S_papers \o topic

(* one iteration of the loop for the line l that input() returned, up to
   its first await *)
QuitBranch(l) ==
  /\ IsQuit(l)
  /\ line' = l
  /\ log' = <<>>
  /\ stack' = <<"main">>
  /\ pc' = "cleanup"
  /\ prompt_name' = <<>> /\ args' = EmptyDict /\ resource_uri' = <<>> /\ local_session' = None
  /\ UNCHANGED <<exc, registry, session, resources, connect_failed, eof, engine>>

(* faulty variant: a fallback hit is cached in self.sessions *)
ResourceBranchCaching(l) ==
  /\ IsResource(l)
  /\ line' = l
  /\ GetResource(ResourceUri(Tail(Strip(l))), <<>>)
  /\ sessions' = IF ResolveResource(sessions, ResourceUri(Tail(Strip(l)))) = None
                 THEN sessions
                 ELSE DictSet(sessions, ResourceUri(Tail(Strip(l))), TheSession)
  /\ prompt_name' = <<>> /\ args' = EmptyDict
  /\ UNCHANGED <<exc, available_tools, available_prompts, session, resources,
                 connect_failed, eof, engine>>

ResourceBranch(l) ==
  /\ IsResource(l)
  /\ line' = l
  /\ GetResource(ResourceUri(Tail(Strip(l))), <<>>)
  /\ prompt_name' = <<>> /\ args' = EmptyDict
  /\ UNCHANGED <<exc, registry, session, resources, connect_failed, eof, engine>>

PromptsBranch(l) ==
  /\ IsCommand(l)
  /\ Command(l) = S_prompts
  /\ line' = l
  /\ log' = ListPromptsOutput
  /\ pc' = "input"
  /\ prompt_name' = <<>> /\ args' = EmptyDict /\ resource_uri' = <<>> /\ local_session' = None
  /\ UNCHANGED <<stack, exc, registry, session, resources, connect_failed, eof, engine>>

UsageBranch(l) ==
  /\ IsCommand(l)
  /\ Command(l) = S_prompt
  /\ Len(Parts(l)) < 2
  /\ line' = l
  /\ log' = <<Output("usage", <<>>)>>
  /\ pc' = "input"
  /\ prompt_name' = <<>> /\ args' = EmptyDict /\ resource_uri' = <<>> /\ local_session' = None
  /\ UNCHANGED <<stack, exc, registry, session, resources, connect_failed, eof, engine>>

PromptBranch(l) ==
  /\ IsCommand(l)
  /\ Command(l) = S_prompt
  /\ Len(Parts(l)) >= 2
  /\ line' = l
  /\ prompt_name' = Parts(l)[2]
  /\ args' = ParseArgs(Parts(l))
  /\ ExecutePrompt(Parts(l)[2], <<>>)
  /\ resource_uri' = <<>>
  /\ UNCHANGED <<exc, registry, session, resources, connect_failed, eof, engine>>

UnknownBranch(l) ==
  /\ IsCommand(l)
  /\ Command(l) \notin {S_prompts, S_prompt}
  /\ line' = l
  /\ log' = <<Output("unknown", Command(l))>>
  /\ pc' = "input"
  /\ prompt_name' = <<>> /\ args' = EmptyDict /\ resource_uri' = <<>> /\ local_session' = None
  /\ UNCHANGED <<stack, exc, registry, session, resources, connect_failed, eof, engine>>

(* faulty variant: process_query is started as a task and not awaited *)
QueryBranchNotAwaited(l) ==
  /\ ~IsQuit(l) /\ ~IsResource(l) /\ ~IsCommand(l)
  /\ line' = l
  /\ messages' = <<Message("user", StrContent(Strip(l)))>>
  /\ sent' = <<>>
  /\ stack' = Append(stack, "process_query")
  /\ log' = <<>>
  /\ pc' = "input"
  /\ prompt_name' = <<>> /\ args' = EmptyDict /\ resource_uri' = <<>> /\ local_session' = None
  /\ UNCHANGED <<exc, registry, session, resources, connect_failed, eof, tool_results>>

QueryBranch(l) ==
  /\ ~IsQuit(l) /\ ~IsResource(l) /\ ~IsCommand(l)
  /\ line' = l
  /\ ProcessQuery(Strip(l), stack, <<>>)
  /\ prompt_name' = <<>> /\ args' = EmptyDict /\ resource_uri' = <<>> /\ local_session' = None
  /\ UNCHANGED <<exc, registry, session, resources, connect_failed, eof, tool_results>>

ReadQuit == pc = "input" /\ ~eof /\ \E l \in Lines : QuitBranch(l)

ReadResource == pc = "input" /\ ~eof /\ \E l \in Lines : ResourceBranch(l)

ReadPrompts == pc = "input" /\ ~eof /\ \E l \in Lines : PromptsBranch(l)

ReadUsage == pc = "input" /\ ~eof /\ \E l \in Lines : UsageBranch(l)

ReadPrompt == pc = "input" /\ ~eof /\ \E l \in Lines : PromptBranch(l)

ReadUnknown == pc = "input" /\ ~eof /\ \E l \in Lines : UnknownBranch(l)

ReadQuery == pc = "input" /\ ~eof /\ \E l \in Lines : QueryBranch(l)

(* input() at end of input raises EOFError, now and on every later call *)
ReadEOF ==
  /\ pc = "input"
  /\ eof' = TRUE
  /\ log' = <<>>
  /\ pc' = "raised"
  /\ exc' = "EOFError"
  /\ UNCHANGED <<stack, registry, session, resources, connect_failed, locals, engine>>

(* Ctrl-C at the prompt: KeyboardInterrupt is not an Exception *)
ReadInterrupt ==
  /\ pc = "input"
  /\ log' = <<>>
  /\ pc' = "raised"
  /\ exc' = "KeyboardInterrupt"
  /\ UNCHANGED <<stack, registry, session, resources, connect_failed, eof, locals, engine>>

(* faulty variant: the handler of chat_loop lets the exception through *)
ChatLoopReraise ==
  /\ pc = "raised"
  /\ Handler(stack, exc) = "chat_loop"
  /\ messages' = <<>>
  /\ tool_results' = <<>>
  /\ sent' = <<>>
  /\ stack' = <<"main">>
  /\ pc' = "cleanup"
  /\ UNCHANGED <<exc, registry, session, resources, connect_failed, eof, locals, log>>

ChatLoopExcept ==
  /\ pc = "raised"
  /\ Handler(stack, exc) = "chat_loop"
  /\ log' = Append(log, Output("chat_error", <<exc>>))
  /\ exc' = "none"
  /\ messages' = <<>>
  /\ tool_results' = <<>>
  /\ sent' = <<>>
  /\ stack' = <<"main", "chat_loop">>
  /\ pc' = "input"
  /\ UNCHANGED <<registry, session, resources, connect_failed, eof, locals>>

(* ---------------------------------- main ------------------------------- *)
(* an exception no except clause takes reaches main's finally *)
(* faulty variant: main without its finally clause *)
MainNoFinally ==
  /\ pc = "raised"
  /\ Handler(stack, exc) = "main"
  /\ messages' = <<>>
  /\ tool_results' = <<>>
  /\ sent' = <<>>
  /\ stack' = <<>>
  /\ pc' = "done"
  /\ UNCHANGED <<exc, registry, session, resources, connect_failed, eof, locals, log>>

MainFinally ==
  /\ pc = "raised"
  /\ Handler(stack, exc) = "main"
  /\ messages' = <<>>
  /\ tool_results' = <<>>
  /\ sent' = <<>>
  /\ stack' = <<"main">>
  /\ pc' = "cleanup"
  /\ UNCHANGED <<exc, registry, session, resources, connect_failed, eof, locals, log>>

Cleanup ==
  /\ pc = "cleanup"
  /\ released' = released \o Reverse(exit_stack)
  /\ exit_stack' = <<>>
  /\ cleanup_calls' = cleanup_calls + 1
  /\ stack' = <<>>
  /\ pc' = "done"
  /\ UNCHANGED <<exc, registry, session, acquired, connect_failed, eof, locals, engine, log>>

Next ==
  \/ EnterSseClient \/ EnterClientSession \/ Initialize
  \/ RegisterTools \/ RegisterPrompts \/ RegisterResources
  \/ ConnectFail \/ ConnectExcept \/ ChatLoopStart
  \/ ReadQuit \/ ReadResource \/ ReadPrompts \/ ReadUsage \/ ReadPrompt
  \/ ReadUnknown \/ ReadQuery \/ ReadEOF \/ ReadInterrupt
  \/ ReadResourceReturn \/ ReadResourceFail \/ GetResourceExcept
  \/ GetPromptReturn \/ GetPromptFail \/ ExecutePromptExcept
  \/ ModelRespond \/ ModelFail
  \/ CallToolReturn \/ CallToolFail \/ CallToolNoSession
  \/ ProcessQueryReturn \/ ChatLoopExcept \/ MainFinally \/ Cleanup

Spec == Init /\ [][Next]_vars

(* the task always takes its next step, and input() always returns or raises *)
FairSpec == Spec /\ WF_vars(Next)

(* ------------- get_resource and the /prompt branch, driven directly ----- *)
(* The program sits at the prompt, connected to a server that advertises any
   set of resources; get_resource is called with any URI, and the /prompt
   branch is run on any argument tokens. *)
UnitResources == {U_folders, U_quantum, U_otherx}

UnitLookups ==
  {U_folders, U_quantum, S_papers \o <<"z">>, S_papers, U_otherx, S_other \o <<"y">>,
   <<"p", "a", "p", "e", "r", "s", ":", "/">>}

ArgChars == {"k", "="}

ArgTokens == SeqsUpTo(ArgChars, MaxTokLen) \ {<<>>}

RECURSIVE PromptLine(_)
PromptLine(toks) ==
  IF toks = <<>> THEN S_prompt \o <<" ">> \o N_prompt
  ELSE PromptLine(SubSeq(toks, 1, Len(toks) - 1)) \o <<" ">> \o toks[Len(toks)]

UnitInit ==
  /\ pc = "input"
  /\ stack = <<"main", "chat_loop">>
  /\ exc = "none"
  /\ \E uris \in SUBSET UnitResources :
       sessions = [u \in uris |-> TheSession]
  /\ available_tools = <<>>
  /\ available_prompts = <<>>
  /\ session = TheSession
  /\ exit_stack = <<"sse_client", "ClientSession">>
  /\ acquired = <<"sse_client", "ClientSession">>
  /\ released = <<>>
  /\ cleanup_calls = 0
  /\ connect_failed = FALSE
  /\ eof = FALSE
  /\ line = NoLine
  /\ prompt_name = <<>>
  /\ args = EmptyDict
  /\ resource_uri = <<>>
  /\ local_session = None
  /\ messages = <<>>
  /\ tool_results = <<>>
  /\ sent = <<>>
  /\ log = <<>>

(* each run makes one call, from the state UnitInit describes *)
Fresh == pc = "input" /\ line = NoLine /\ resource_uri = <<>> /\ log = <<>>

UnitGetResource ==
  /\ Fresh
  /\ \E uri \in UnitLookups : GetResource(uri, <<>>)
  /\ UNCHANGED <<exc, registry, session, resources, connect_failed, eof,
                 line, prompt_name, args, engine>>

UnitPrompt ==
  /\ Fresh
  /\ \E toks \in SeqsUpTo(ArgTokens, MaxArgs) : PromptBranch(PromptLine(toks))

UnitNext ==
  \/ UnitGetResource \/ UnitPrompt
  \/ ReadResourceReturn \/ ReadResourceFail \/ GetResourceExcept

SpecUnit == UnitInit /\ [][UnitNext]_vars

(* ---------- process_query, reached from either of its call sites -------- *)
(* The program sits at the prompt after a connect that registered the tool
   and nothing else; lines are read for ever, and each plain line or
   /prompt line runs process_query as chat_loop or execute_prompt calls it. *)
QueryInit ==
  /\ pc = "input"
  /\ stack = <<"main", "chat_loop">>
  /\ exc = "none"
  /\ sessions = RegisterAll(EmptyDict, <<N_tool>>)
  /\ available_tools = Descriptors(<<N_tool>>)
  /\ available_prompts = <<>>
  /\ session = TheSession
  /\ exit_stack = <<"sse_client", "ClientSession">>
  /\ acquired = <<"sse_client", "ClientSession">>
  /\ released = <<>>
  /\ cleanup_calls = 0
  /\ connect_failed = FALSE
  /\ eof = FALSE
  /\ line = NoLine
  /\ prompt_name = <<>>
  /\ args = EmptyDict
  /\ resource_uri = <<>>
  /\ local_session = None
  /\ messages = <<>>
  /\ tool_results = <<>>
  /\ sent = <<>>
  /\ log = <<>>

QueryNext ==
  \/ ReadQuery \/ ReadPrompt
  \/ GetPromptReturn \/ GetPromptFail \/ ExecutePromptExcept
  \/ ModelRespond \/ ModelFail
  \/ CallToolReturn \/ CallToolFail
  \/ ProcessQueryReturn \/ ChatLoopExcept

SpecQuery == QueryInit /\ [][QueryNext]_vars

TypeOK == pc \in ConnectStages \cup
  {"raised", "chat_loop", "input", "read_resource", "get_prompt", "model",
   "call_tool", "break", "cleanup", "done"}

(* ------------------------------ properties ----------------------------- *)
Positions(content, t) == {i \in 1..Len(content) : content[i].type = t}

(* the position in content of its j-th block of type t *)
Nth(content, t, j) ==
  CHOOSE i \in Positions(content, t) :
    Cardinality({x \in Positions(content, t) : x <= i}) = j

HasToolUse(m) == m.role = "assistant" /\ Positions(m.content, "tool_use") # {}

PairedAt(k) ==
  /\ k + 1 <= Len(messages)
  /\ messages[k + 1].role = "user"
  /\ Len(messages[k + 1].content) = Cardinality(Positions(messages[k].content, "tool_use"))
  /\ \A j \in 1..Len(messages[k + 1].content) :
       /\ messages[k + 1].content[j].type = "tool_result"
       /\ messages[k + 1].content[j].id =
            messages[k].content[Nth(messages[k].content, "tool_use", j)].id
  /\ k + 2 <= Len(messages) => messages[k + 2].role = "assistant"

(* C1 as stated: every response with N >= 1 tool-use requests whose round is
   over is followed at once by exactly one user message holding the N
   results, matched by id, in request order. *)
C1_PairingEveryRound ==
  \A k \in 1..Len(messages) :
    (HasToolUse(messages[k]) /\ (k < Len(messages) \/ pc # "call_tool")) => PairedAt(k)

(* C1: every response with N >= 1 tool-use requests whose N tool calls have
   all returned is followed at once by exactly one user message holding the
   N results, matched by id, in request order; while the round is under way
   the results collected so far match the first requests in order. *)
C1_Pairing ==
  /\ \A k \in 1..Len(messages) :
       (HasToolUse(messages[k]) /\ (k < Len(messages) \/ pc \notin {"call_tool", "raised"}))
         => PairedAt(k)
  /\ pc = "call_tool" =>
       /\ HasToolUse(messages[Len(messages)])
       /\ Len(tool_results) < Cardinality(Positions(messages[Len(messages)].content, "tool_use"))
       /\ \A j \in 1..Len(tool_results) :
            tool_results[j].id =
              messages[Len(messages)].content[Nth(messages[Len(messages)].content, "tool_use", j)].id

C1_Witness ==
  /\ pc = "model"
  /\ Len(messages) = 3
  /\ Cardinality(Positions(messages[2].content, "tool_use")) = 2
  /\ PairedAt(2)

IsModelCall(e) == e.ev = "call" /\ e.kind = "messages.create"

IsTextPrint(e) == e.ev = "print" /\ e.kind = "text"

FinalResponse == messages[Len(messages)].content

(* C2: process_query stops at the first response without tool-use requests:
   every earlier response has one, a history that ends with such a response
   is only ever found at the break (where no model or tool call follows),
   and what the query has printed as text is exactly the text blocks of that
   final response, in block order, after its last call. *)
C2_Termination ==
  /\ \A k \in 1..(Len(messages) - 1) :
       messages[k].role = "assistant" => HasToolUse(messages[k])
  /\ pc = "break" =>
       /\ messages # <<>>
       /\ messages[Len(messages)].role = "assistant"
       /\ ~HasToolUse(messages[Len(messages)])
  /\ (messages # <<>> /\ messages[Len(messages)].role = "assistant"
        /\ ~HasToolUse(messages[Len(messages)])) =>
       LET n == Cardinality(Positions(FinalResponse, "text")) IN
         /\ pc = "break"
         /\ Len(log) >= n + 1
         /\ IsModelCall(log[Len(log) - n])
         /\ \A j \in 1..n :
              log[Len(log) - n + j] =
                Output("text", FinalResponse[Nth(FinalResponse, "text", j)].text)
         /\ \A i \in 1..(Len(log) - n) : ~IsTextPrint(log[i])
         /\ Cardinality({i \in 1..Len(log) : IsModelCall(log[i])}) = Len(messages) \div 2

C2_Witness ==
  /\ pc = "break"
  /\ Len(messages) = 4
  /\ Len(FinalResponse) = 2
  /\ Positions(FinalResponse, "text") = {1, 2}
  /\ FinalResponse[1].text # FinalResponse[2].text

(* C3 as stated: once connect_to_server has reported a failure the chat loop
   never reads a line nor makes a model or transport call. *)
C3_NoChatAfterConnectFailure ==
  connect_failed =>
    pc \notin {"input", "read_resource", "get_prompt", "model", "call_tool", "break"}

(* C4 as stated: once the input source is exhausted, chat_loop ends and
   cleanup is reached. *)
C4_EofTerminates == eof ~> (pc = "done")

InFlightQuery == \E i \in 1..Len(stack) : stack[i] \in {"process_query", "execute_prompt"}

(* C5: a model, tool or prompt call that fails during a query is caught and
   reported with one error line, and the loop is back at input(). *)
C5_FailureContinues ==
  [][(pc = "raised" /\ IsException(exc) /\ InFlightQuery) =>
       /\ pc' = "input"
       /\ stack' = <<"main", "chat_loop">>
       /\ exc' = "none"
       /\ Len(log') = Len(log) + 1
       /\ SubSeq(log', 1, Len(log)) = log
       /\ log'[Len(log')].ev = "print"
       /\ log'[Len(log')].kind \in {"error", "chat_error"}
       /\ log'[Len(log')].text = <<exc>>]_vars

C5_Witness ==
  /\ pc = "input"
  /\ ~eof
  /\ Len(log) >= 2
  /\ log[Len(log)].kind = "chat_error"
  /\ log[Len(log) - 1].ev = "call"
  /\ log[Len(log) - 1].kind = "call_tool"

BlankOrQuit(l) ==
  /\ l # NoLine
  /\ \/ \A i \in 1..Len(l) : l[i] \in Whitespace
     \/ \E a \in 1..Len(l) :
          /\ a + 3 <= Len(l)
          /\ l[a] \in {"q", "Q"} /\ l[a + 1] \in {"u", "U"}
          /\ l[a + 2] \in {"i", "I"} /\ l[a + 3] \in {"t", "T"}
          /\ \A i \in 1..Len(l) : (i < a \/ i > a + 3) => l[i] \in Whitespace

(* C6: after a line that is blank or is quit in any case, the loop has ended
   and nothing was called for the line. *)
C6_QuitEndsSession ==
  BlankOrQuit(line) => (pc \in {"cleanup", "done"} /\ log = <<>> /\ messages = <<>>)

C6_Witness ==
  /\ line = <<" ", "Q", "u", "i", "t", " ">>
  /\ pc = "done"

ConnectReturned == \A i \in 1..Len(stack) : stack[i] # "connect_to_server"

(* C7: once connect_to_server has returned, no step changes self.sessions,
   self.available_tools or self.available_prompts. *)
C7_RegistryImmutable ==
  [][ConnectReturned => UNCHANGED <<sessions, available_tools, available_prompts>>]_vars

C7_Witness ==
  /\ pc = "input"
  /\ Cardinality(DOMAIN sessions) = 3
  /\ resource_uri = U_quantum
  /\ \E i \in 1..Len(log) : log[i].ev = "call" /\ log[i].kind = "read_resource"

Occurrences(seq, x) == Cardinality({i \in 1..Len(seq) : seq[i] = x})

(* C8: when main is over, cleanup has run exactly once and every context the
   exit stack took has been exited exactly once; before main's finally
   nothing is released. *)
C8_ReleasedOnce ==
  /\ pc = "done" =>
       /\ cleanup_calls = 1
       /\ exit_stack = <<>>
       /\ Len(released) = Len(acquired)
       /\ \A i \in 1..Len(acquired) : Occurrences(released, acquired[i]) = 1
  /\ pc # "done" => (released = <<>> /\ cleanup_calls = 0)
  /\ released # <<>> => \A i \in 1..Len(stack) : stack[i] # "chat_loop"

C8_Witness ==
  /\ pc = "done"
  /\ exc = "KeyboardInterrupt"
  /\ session = TheSession
  /\ Occurrences(released, "ClientSession") = 1

HasPapersPrefix(u) == Len(u) >= 9 /\ \A i \in 1..9 : u[i] = S_papers[i]

(* C9: get_resource resolves a registered URI to its session, an
   unregistered papers:// URI to the session of a registered papers:// URI
   when there is one, and anything else to none: "not found" is printed and
   read_resource is not called. *)
C9_ResourceFallback ==
  resource_uri # <<>> =>
    /\ resource_uri \in DOMAIN sessions => local_session = sessions[resource_uri]
    /\ (resource_uri \notin DOMAIN sessions /\ HasPapersPrefix(resource_uri)
          /\ \E k \in DOMAIN sessions : HasPapersPrefix(k)) =>
         \E k \in DOMAIN sessions : HasPapersPrefix(k) /\ local_session = sessions[k]
    /\ (resource_uri \notin DOMAIN sessions
          /\ ~(HasPapersPrefix(resource_uri) /\ \E k \in DOMAIN sessions : HasPapersPrefix(k))) =>
         /\ local_session = None
         /\ pc = "input"
         /\ log = <<Output("resource_not_found", resource_uri)>>
    /\ local_session # None =>
         \/ pc = "read_resource" /\ log = <<>>
         \/ log # <<>> /\ log[1] = InvokeOn(local_session, "read_resource", "", resource_uri)

C9_Witness ==
  /\ DOMAIN sessions = {U_folders}
  /\ resource_uri = U_quantum
  /\ local_session = sessions[U_folders]
  /\ pc = "read_resource"

TrailingTokens(l) == SubSeq(Split(Strip(l)), 3, Len(Split(Strip(l))))

ContainsEq(t) == \E i \in 1..Len(t) : t[i] = "="

(* the part of a token before its first "=", and the part after it *)
KeyOf(t) ==
  CHOOSE k \in {SubSeq(t, 1, n) : n \in 0..(Len(t) - 1)} :
    ~ContainsEq(k) /\ t[Len(k) + 1] = "="

ValueOf(t) == SubSeq(t, Len(KeyOf(t)) + 2, Len(t))

(* C10: the args of a /prompt line have one key per key of a trailing token
   with "=", the token cut at its first "=", the last token of a key giving
   its value; tokens without "=" give nothing. *)
C10_ArgParsing ==
  prompt_name # <<>> =>
    LET toks == TrailingTokens(line)
        eqs == {i \in 1..Len(toks) : ContainsEq(toks[i])}
    IN /\ DOMAIN args = {KeyOf(toks[i]) : i \in eqs}
       /\ \A i \in eqs :
            (\A j \in eqs : j > i => KeyOf(toks[j]) # KeyOf(toks[i]))
              => args[KeyOf(toks[i])] = ValueOf(toks[i])

C10_Witness ==
  /\ prompt_name = N_prompt
  /\ TrailingTokens(line) = <<<<"k", "=", "=">>, <<"k", "=", "k">>>>
  /\ DOMAIN args = {<<"k">>}
  /\ args[<<"k">>] = <<"k">>

ModelCalls == Cardinality({i \in 1..Len(log) : IsModelCall(log[i])})

(* the query process_query was called with for the current line: the
   stripped line, or the text taken from the prompt that was fetched *)
IsQueryOfLine(q) ==
  IF prompt_name = <<>>
  THEN q = Strip(line)
  ELSE \E result \in PromptResults : result.shape # "none" /\ q = PromptText(result)

FirstMessageIsQuery(history) ==
  /\ history[1].role = "user"
  /\ Len(history[1].content) = 1
  /\ history[1].content[1].type = "str"
  /\ IsQueryOfLine(history[1].content[1].text)

(* C11: the first model call of a query is given a history of exactly one
   message, the user message holding that query, and every history a model
   call is given holds that message followed only by the two messages of
   each earlier round of the same query. *)
C11_FreshHistory ==
  /\ pc = "model" =>
       /\ FirstMessageIsQuery(messages)
       /\ Len(messages) = 2 * ModelCalls + 1
       /\ ModelCalls = 0 => (sent = <<>> /\ Len(messages) = 1)
  /\ sent # <<>> =>
       /\ FirstMessageIsQuery(sent)
       /\ Len(sent) = 2 * ModelCalls - 1
       /\ \A k \in 2..Len(sent) : sent[k] = messages[k]
  /\ pc = "input" => (messages = <<>> /\ sent = <<>>)

C11_Witness ==
  /\ pc = "model"
  /\ ModelCalls = 0
  /\ prompt_name = N_tool
  /\ messages = <<Message("user", StrContent(<<"T", " ", "U">>))>>

IsErrorPrint(e) == e.ev = "print" /\ e.kind \in {"error", "chat_error"}

ErrorPrints(l) == {i \in 1..Len(l) : IsErrorPrint(l[i])}

CallsOf(l) == SelectSeq(l, LAMBDA e : e.ev = "call")

(* a model call, tool call, resource read or prompt fetch of the current
   line has just failed *)
CallFailed ==
  /\ pc = "raised"
  /\ exc \in {"ConnectionError", "AttributeError"}
  /\ \E i \in 1..Len(stack) : stack[i] = "chat_loop"

(* C12: when a model call, tool call, resource read or prompt fetch fails,
   one error line is printed for it, no call is issued again, and the loop
   is back at input(); a line never prints more than one error line, also
   when process_query fails inside execute_prompt, and the error line is
   the last thing the line does. *)
C12_FailureOnceNoRetry ==
  [][/\ CallFailed =>
          /\ Cardinality(ErrorPrints(log)) = 0
          /\ Cardinality(ErrorPrints(log')) = 1
          /\ log'[Len(log')].text = <<exc>>
          /\ CallsOf(log') = CallsOf(log)
          /\ pc' = "input"
          /\ exc' = "none"
          /\ stack' = <<"main", "chat_loop">>
     /\ Cardinality(ErrorPrints(log')) <= 1
     /\ ErrorPrints(log') # {} =>
          /\ ErrorPrints(log') = {Len(log')}
          /\ pc' = "input"]_vars

C12_Witness ==
  /\ pc = "input"
  /\ prompt_name = N_tool
  /\ Len(log) = 4
  /\ log[1].kind = "get_prompt"
  /\ log[2] = Output("executing", N_tool)
  /\ IsModelCall(log[3])
  /\ log[4] = Output("error", <<"ConnectionError">>)

Frames(f) == {i \in 1..Len(stack) : stack[i] = f}

(* the await the task is suspended at belongs to the innermost frame *)
AwaitOwner ==
  [read_resource |-> "get_resource", get_prompt |-> "execute_prompt",
   model |-> "process_query", call_tool |-> "process_query", break |-> "process_query"]

(* C13: whenever input() is called, everything started for the line before
   has returned or failed: only main and chat_loop are on the stack, no
   exception is pending and no history exists; there is never more than one
   process_query frame, and a history exists only inside that frame. *)
C13_OneLineAtATime ==
  /\ pc = "input" =>
       /\ stack = <<"main", "chat_loop">>
       /\ exc = "none"
       /\ messages = <<>> /\ tool_results = <<>> /\ sent = <<>>
  /\ \A f \in {"process_query", "execute_prompt", "get_resource", "chat_loop"} :
       Cardinality(Frames(f)) <= 1
  /\ (messages # <<>> \/ tool_results # <<>>) => Frames("process_query") # {}
  /\ pc \in DOMAIN AwaitOwner => stack[Len(stack)] = AwaitOwner[pc]
  /\ Frames("process_query") # {} => Frames("get_resource") = {}

C13_Witness ==
  /\ pc = "input"
  /\ line = <<"h", "i">>
  /\ ModelCalls = 2
  /\ \E i \in 1..Len(log) : log[i].ev = "call" /\ log[i].kind = "call_tool"
  /\ IsTextPrint(log[Len(log)])

IsToolCall(e) == e.ev = "call" /\ e.kind = "call_tool"

(* the index in the log of the last model call, 0 when there is none *)
LastModelCall ==
  IF \E i \in 1..Len(log) : IsModelCall(log[i])
  THEN CHOOSE i \in 1..Len(log) :
         IsModelCall(log[i]) /\ \A j \in (i + 1)..Len(log) : ~IsModelCall(log[j])
  ELSE 0

(* what the current round has printed and called so far *)
RoundLog == IF LastModelCall = 0 THEN <<>> ELSE SubSeq(log, LastModelCall + 1, Len(log))

ToolCallFailed ==
  /\ pc = "raised"
  /\ Frames("process_query") # {}
  /\ log # <<>>
  /\ IsToolCall(log[Len(log)])

(* C14: when a tool call of a round fails, the requests after it are not
   dispatched, the history still ends with the assistant response of the
   round, and the next step is the error line with the loop back at
   input(): no further call is made and the registry is as it was. *)
C14_ToolFailureStopsRound ==
  [][ToolCallFailed =>
       /\ messages[Len(messages)].role = "assistant"
       /\ Len(messages) = 2 * ModelCalls
       /\ Len(tool_results) < Len(ToolUseBlocks)
       /\ SelectSeq(RoundLog, IsToolCall) =
            [j \in 1..(Len(tool_results) + 1) |->
               InvokeOn(session, "call_tool", ToolUseBlocks[j].id, ToolUseBlocks[j].name)]
       /\ log' = Append(log, Output(log'[Len(log')].kind, <<exc>>))
       /\ IsErrorPrint(log'[Len(log')])
       /\ pc' = "input"
       /\ messages' = <<>>
       /\ UNCHANGED <<sessions, available_tools, available_prompts>>]_vars

C14_Witness ==
  /\ ToolCallFailed
  /\ Len(ToolUseBlocks) = 2
  /\ tool_results = <<>>
  /\ Len(SelectSeq(RoundLog, IsToolCall)) = 1
  /\ exc = "ConnectionError"

(* the tool-use requests of the last response in the history *)
RoundRequests ==
  IF \E k \in 1..Len(messages) : messages[k].role = "assistant"
  THEN SelectBlocks(
         messages[CHOOSE k \in 1..Len(messages) :
                    /\ messages[k].role = "assistant"
                    /\ \A m \in (k + 1)..Len(messages) : messages[m].role # "assistant"].content,
         "tool_use")
  ELSE <<>>

(* trace line then call, request after request *)
DispatchOrder(requests) ==
  [i \in 1..(2 * Len(requests)) |->
     IF i % 2 = 1
     THEN TraceLine(requests[(i + 1) \div 2])
     ELSE InvokeOn(session, "call_tool", requests[i \div 2].id, requests[i \div 2].name)]

(* C15: what a round prints and calls is, request by request in the order
   of the response's tool-use blocks, the trace line of the request and then
   its call_tool; a request's trace line comes only after the call of the
   request before it is over, and when all calls returned every request
   was dispatched. *)
C15_DispatchInOrder ==
  (Frames("process_query") # {} /\ pc \in {"call_tool", "model", "raised"}) =>
     /\ Len(RoundLog) <= 2 * Len(RoundRequests)
     /\ RoundLog = SubSeq(DispatchOrder(RoundRequests), 1, Len(RoundLog))
     /\ pc = "call_tool" =>
          (Len(RoundLog) = 2 * Len(tool_results) /\ Len(tool_results) < Len(RoundRequests))
     /\ (pc = "model" /\ ModelCalls > 0) => Len(RoundLog) = 2 * Len(RoundRequests)

C15_Witness ==
  /\ pc = "model"
  /\ ModelCalls = 1
  /\ Len(RoundRequests) = 2
  /\ RoundRequests[1].id = "t2"
  /\ Len(RoundLog) = 4
  /\ RoundLog[2].id = "t2" /\ RoundLog[4].id = "t1"

(* the first whitespace-separated token of a stripped line, and whether
   another token follows it *)
FirstTokenLen(s) ==
  CHOOSE n \in 1..Len(s) :
    /\ n = Len(s) \/ s[n + 1] \in Whitespace
    /\ \A i \in 1..n : s[i] \notin Whitespace

FirstToken(s) == SubSeq(s, 1, FirstTokenLen(s))

HasSecondToken(s) == \E i \in (FirstTokenLen(s) + 1)..Len(s) : s[i] \notin Whitespace

CasePairs ==
  {<<"p", "P">>, <<"r", "R">>, <<"o", "O">>, <<"m", "M">>, <<"t", "T">>,
   <<"s", "S">>, <<"x", "X">>}

(* tok is the word w, but for letters of w that tok has in upper case *)
IsWord(tok, w) ==
  /\ Len(tok) = Len(w)
  /\ \A i \in 1..Len(w) : tok[i] = w[i] \/ <<w[i], tok[i]>> \in CasePairs

IsLowercase(w) == \A i \in 1..Len(w) : \A pair \in CasePairs : w[i] # pair[2]

(* the line being processed starts with "/" *)
SlashLine ==
  /\ line # NoLine
  /\ ~eof /\ exc # "KeyboardInterrupt"
  /\ \E i \in 1..Len(line) : line[i] = "/"
  /\ Head(Strip(line)) = "/"

(* C16: a line starting with "/" makes a call only if its first token is
   /prompt in any case and a name follows; /prompts prints the list of
   prompts, /prompt alone prints the usage line, any other command prints
   the unknown-command line with the lowercased command, and after each of
   the three the loop is at input() with nothing called. *)
C16_SlashCommands ==
  SlashLine =>
    LET stripped == Strip(line)
        tok == FirstToken(stripped)
        isPrompts == IsWord(tok, S_prompts)
        isPrompt == IsWord(tok, S_prompt)
        named == isPrompt /\ HasSecondToken(stripped)
    IN IF named THEN TRUE
       ELSE /\ pc = "input"
            /\ stack = <<"main", "chat_loop">>
            /\ messages = <<>>
            /\ \A i \in 1..Len(log) : log[i].ev = "print"
            /\ isPrompts =>
                 IF available_prompts = <<>>
                 THEN log = <<Output("no_prompts", <<>>)>>
                 ELSE /\ Len(log) = 1 + Len(available_prompts)
                      /\ log[1] = Output("prompts_header", <<>>)
                      /\ \A i \in 1..Len(available_prompts) :
                           log[i + 1] = Output("prompt", available_prompts[i].name)
            /\ isPrompt => log = <<Output("usage", <<>>)>>
            /\ (~isPrompts /\ ~isPrompt) =>
                 /\ Len(log) = 1
                 /\ log[1].ev = "print" /\ log[1].kind = "unknown"
                 /\ IsWord(tok, log[1].text)
                 /\ IsLowercase(log[1].text)

C16_Witness ==
  /\ SlashLine
  /\ FirstToken(Strip(line)) = <<"/", "P", "r", "o", "m", "p", "t", "s">>
  /\ HasSecondToken(Strip(line))
  /\ pc = "input"
  /\ log = <<Output("prompts_header", <<>>), Output("prompt", N_prompt)>>

(* C17: every call_tool is made on self.session, the session stored by
   connect_to_server, whether or not the tool's name is a key of
   self.sessions; while self.session is unset no call_tool is made, and a
   query whose response asks for a tool ends with the AttributeError raised
   at the first request, before any result exists. *)
C17_FixedSession ==
  /\ \A i \in 1..Len(log) :
       IsToolCall(log[i]) => (log[i].to = TheSession /\ session = TheSession)
  /\ session = None =>
       /\ \A i \in 1..Len(log) : ~IsToolCall(log[i])
       /\ tool_results = <<>>
       /\ \A k \in 1..Len(messages) :
            /\ messages[k].role = "user" => k = 1
            /\ HasToolUse(messages[k]) =>
                 /\ k = Len(messages)
                 /\ pc \in {"call_tool", "raised"}
                 /\ pc = "raised" =>
                      /\ exc = "AttributeError"
                      /\ log[Len(log)] = TraceLine(RoundRequests[1])

C17_Witness ==
  /\ pc = "model"
  /\ Len(messages) = 3
  /\ <<"n">> \notin DOMAIN sessions
  /\ log[Len(log)] = InvokeOn(TheSession, "call_tool", "t2", <<"n">>)

IsPrefix(s, t) == Len(s) <= Len(t) /\ SubSeq(t, 1, Len(s)) = s

(* C18: while a history exists every step leaves it as it is or appends to
   it; a model call is given the whole history, and from the second call of
   a query on that is the history of the call before followed by that call's
   response and the user message holding its tool results. *)
C18_AppendOnlyFullHistory ==
  [][/\ (messages # <<>> /\ messages' # <<>>) => IsPrefix(messages, messages')
     /\ pc = "model" =>
          /\ sent' = messages
          /\ sent # <<>> =>
               /\ IsPrefix(sent, sent')
               /\ Len(sent') = Len(sent) + 2
               /\ HasToolUse(sent'[Len(sent) + 1])
               /\ sent'[Len(sent) + 2].role = "user"
               /\ \A j \in 1..Len(sent'[Len(sent) + 2].content) :
                    sent'[Len(sent) + 2].content[j].type = "tool_result"]_vars

C18_Witness ==
  /\ pc = "break"
  /\ Len(sent) = 3
  /\ Len(messages) = 4
  /\ Len(sent[3].content) = 2

(* the line being processed is /prompt with a name *)
PromptLineRun == prompt_name # <<>> /\ ~eof /\ exc # "KeyboardInterrupt"

(* C19: /prompt with a name that is no key of self.sessions prints the
   not-found line and nothing else and calls nothing; with a name that is a
   key, be it the name of a tool, of a prompt or a resource URI, no
   not-found line is printed and get_prompt is the first thing called, on
   the session the key maps to. *)
C19_PromptLookupSharedMap ==
  PromptLineRun =>
    /\ prompt_name \notin DOMAIN sessions =>
         /\ log = <<Output("prompt_not_found", prompt_name)>>
         /\ pc = "input"
         /\ messages = <<>>
    /\ prompt_name \in DOMAIN sessions =>
         /\ \A i \in 1..Len(log) : ~(log[i].ev = "print" /\ log[i].kind = "prompt_not_found")
         /\ \/ pc = "get_prompt" /\ log = <<>>
            \/ /\ log # <<>>
               /\ log[1] = InvokeOn(sessions[prompt_name], "get_prompt", "", prompt_name)

C19_Witness ==
  /\ PromptLineRun
  /\ prompt_name = N_tool
  /\ \A i \in 1..Len(available_prompts) : available_prompts[i].name # N_tool
  /\ \E i \in 1..Len(available_tools) : available_tools[i].name = N_tool
  /\ pc = "input"
  /\ log = <<InvokeOn(TheSession, "get_prompt", "", N_tool)>>

IsText(block) == block.type = "text"

AsksForTools(m) == \E i \in 1..Len(m.content) : m.content[i].type = "tool_use"

(* every tool-use request of the history, by message and position *)
AllRequests ==
  {<<k, i>> \in (1..Len(messages)) \X (1..MaxBlocks) :
     /\ messages[k].role = "assistant"
     /\ i <= Len(messages[k].content)
     /\ messages[k].content[i].type = "tool_use"}

(* C20: when process_query ends normally after R responses that asked for
   tools, the history is the query, then R times a response asking for
   tools and a user message, then the last response, which asks for none:
   roles alternate user, assistant, ..., ending with an assistant message;
   R + 1 model calls were made, call_tool was called once per tool-use
   block of the R responses, and the text printed is the text of the last
   response only. *)
C20_NormalRunCounts ==
  pc = "break" =>
    LET R == (Len(messages) - 2) \div 2 IN
      /\ Len(messages) = 2 * R + 2
      /\ \A k \in 1..Len(messages) :
           messages[k].role = IF k % 2 = 1 THEN "user" ELSE "assistant"
      /\ \A r \in 1..R : AsksForTools(messages[2 * r])
      /\ ~AsksForTools(messages[Len(messages)])
      /\ Len(SelectSeq(log, IsModelCall)) = R + 1
      /\ Len(SelectSeq(log, IsToolCall)) = Cardinality(AllRequests)
      /\ LET printed == SelectSeq(log, IsTextPrint)
             texts == SelectSeq(messages[Len(messages)].content, IsText)
         IN /\ Len(printed) = Len(texts)
            /\ \A j \in 1..Len(texts) : printed[j] = Output("text", texts[j].text)

C20_Witness ==
  /\ pc = "break"
  /\ Len(messages) = 4
  /\ Positions(messages[2].content, "text") = {1}
  /\ Positions(messages[2].content, "tool_use") = {2}
  /\ SelectSeq(log, IsTextPrint) = <<Output("text", <<"b">>)>>
  /\ Len(SelectSeq(log, IsToolCall)) = 1

====
